---- MODULE Spec2Model ----
(***************************************************************************)
(* claude-watch: the session aggregation pipeline (src/session.rs), the    *)
(* dashboard state machine with its input loop (src/ui.rs), and the        *)
(* program's entry point (src/main.rs) with src/wezterm.rs.                *)
(*                                                                         *)
(* Rust Option<T> is modelled as a set with at most one element:           *)
(* None = {} and Some(v) = {v}.  Vec indices are 0-based as in the source; *)
(* the element at Rust index i of a sequence s is s[i + 1].                *)
(***************************************************************************)
EXTENDS Integers, Sequences, FiniteSets, TLC

VARIABLES
    all_sessions,    \* argument of filter_active_sessions (Vec<Session>)
    wezterm,         \* the external `wezterm cli list` tool: outcome and live panes
    filtered,        \* Result<Vec<Session>> of the latest filter_active_sessions call
    prev_filtered,   \* Result of the call before it, on the same arguments
    runs,            \* number of filter_active_sessions calls made so far
    app,             \* struct App: sessions, state (the ListState's selection),
                     \* should_quit, and the time since last_update
    last_op,         \* the App method that ran last
    prev_selected,   \* app.state.selected() before that method ran
    home,            \* whether the HOME environment variable is set
    projects,        \* ~/.claude/projects: directory name -> its sessions-index.json
    to_enrich,       \* argument of enrich_sessions_with_index (&mut [Session]) at entry
    enriched,        \* Result<()> of that call, with the slice as the call left it
    sessions_dir,    \* ~/.claude/sessions: whether it exists, and its files
    tui_arg,         \* argument of run_tui (Vec<Session>)
    pc,              \* position of run_tui
    code,            \* the KeyCode read in the current loop iteration
    selected_session_id,   \* run_tui's local of that name
    tui_result,      \* Result<Option<String>> returned by run_tui
    args,            \* std::env::args() of main: args[1] is the program name
    main_pc,         \* position of main
    main_sessions,   \* main's local `sessions`, the aggregated list
    exit_result,     \* Result<()> main returns: Err is a non-zero exit
    stdout,          \* what the program has printed, one item per message
    activated,       \* the pane_id jump_to_pane was called with, if it was
    loaded           \* Result<Vec<Session>> of a load_sessions call

aggVars == <<all_sessions, filtered, prev_filtered, runs>>
appVars == <<app, last_op, prev_selected>>
envVars == <<wezterm, home, projects, sessions_dir>>
tuiVars == <<tui_arg, pc, code, selected_session_id, tui_result>>
enrichVars == <<to_enrich, enriched>>
mainVars == <<args, main_pc, main_sessions, exit_result, stdout, activated>>

vars == <<all_sessions, wezterm, filtered, prev_filtered, runs,
          app, last_op, prev_selected, home, projects, to_enrich, enriched,
          sessions_dir, tui_arg, pc, code, selected_session_id, tui_result,
          args, main_pc, main_sessions, exit_result, stdout, activated, loaded>>

-----------------------------------------------------------------------------
(* Bounds of the model *)

MaxLen == 3      \* longest session list drawn as an input
MaxRuns == 2     \* calls of filter_active_sessions on one input
MaxElapsed == 2  \* the clock since last_update saturates here (in seconds)
MaxEntries == 1  \* most entries in one sessions-index.json
MaxFiles == 2    \* most session documents in the sessions directory of a run_tui run

-----------------------------------------------------------------------------
(* Option and Result *)

None == {}
Some(v) == {v}
IsSome(o) == o # {}
Unwrap(o) == CHOOSE v \in o : TRUE

Ok(v) == [ok |-> TRUE, val |-> v, err |-> ""]
Err(e) == [ok |-> FALSE, val |-> <<>>, err |-> e]

-----------------------------------------------------------------------------
(* Input domains *)

SessionIdAt == <<"s1", "s2", "s3", "s4", "s5">>
PaneIds == {"7", "9", "12"}
Updated == {100, 200}
\* A cwd is the sequence of its characters: /a/b, /a.b and /c.
Cwds == { <<"/", "a", "/", "b">>, <<"/", "a", ".", "b">>, <<"/", "c">> }
DefaultCwd == <<"/", "c">>

\* struct Session as deserialized: the #[serde(skip)] fields take their
\* Default, which is None.
Session(sid, pane, cwd, upd) ==
    [session_id |-> sid, pane_id |-> pane, cwd |-> cwd, status |-> "active",
     notification_message |-> None, updated |-> upd,
     summary |-> None, first_prompt |-> None, message_count |-> None,
     git_branch |-> None, modified |-> None]

\* Session lists of length n whose i-th record has the i-th session id.
SessionListsOfLen(n, panes, cwds, upds) ==
    { [i \in 1..n |-> Session(SessionIdAt[i], f[i][1], f[i][2], f[i][3])] :
        f \in [1..n -> panes \X cwds \X upds] }

SessionLists(max, panes, cwds, upds) ==
    UNION { SessionListsOfLen(n, panes, cwds, upds) : n \in 0..max }

\* Outcomes of the external pane listing: the process cannot be launched,
\* exits non-zero, prints bytes that are not UTF-8, prints text that is not a
\* JSON array, or prints the array of live panes.
WeztermFailures == {"spawn_failed", "exit_nonzero", "bad_utf8", "bad_json"}
WeztermStates ==
    { [status |-> s, panes |-> {}] : s \in WeztermFailures }
    \cup { [status |-> "ok", panes |-> P] : P \in SUBSET PaneIds }

-----------------------------------------------------------------------------
(* session.rs: get_active_pane_ids, filter_active_sessions *)

get_active_pane_ids(w) ==
    IF w.status = "spawn_failed" THEN Err("WezTerm pane list failed")
    ELSE IF w.status = "exit_nonzero" THEN Err("WezTerm cli command failed")
    ELSE IF w.status = "bad_utf8" THEN Err("WezTerm output is not UTF-8")
    ELSE IF w.status = "bad_json" THEN Err("WezTerm JSON parse failed")
    ELSE [ok |-> TRUE, val |-> w.panes, err |-> ""]

\* Mutant: the insert forgets every other key.
MapInsert_Alone(map, k, v) == [x \in {k} |-> v]

\* HashMap::insert
MapInsert(map, k, v) ==
    [x \in (DOMAIN map) \cup {k} |-> IF x = k THEN v ELSE map[x]]

\* Mutant: the comparison of line 123 turned around, so the older record wins.
DedupStep_KeepOldest(map, session, active_pane_ids) ==
    IF session.pane_id \notin active_pane_ids THEN map
    ELSE IF session.pane_id \in DOMAIN map
         THEN IF session.updated < map[session.pane_id].updated
              THEN MapInsert(map, session.pane_id, session)
              ELSE map
         ELSE MapInsert(map, session.pane_id, session)

\* Mutant: the live-pane test of lines 117-119 left out.
DedupStep_NoLiveCheck(map, session, active_pane_ids) ==
    IF session.pane_id \in DOMAIN map
    THEN IF session.updated > map[session.pane_id].updated
         THEN MapInsert(map, session.pane_id, session)
         ELSE map
    ELSE MapInsert(map, session.pane_id, session)

\* Mutant: the comparison of line 123 as >=, so the later of two equally
\* fresh records wins.
DedupStep_LastWinsTies(map, session, active_pane_ids) ==
    IF session.pane_id \notin active_pane_ids THEN map
    ELSE IF session.pane_id \in DOMAIN map
         THEN IF session.updated >= map[session.pane_id].updated
              THEN MapInsert(map, session.pane_id, session)
              ELSE map
         ELSE MapInsert(map, session.pane_id, session)

\* One iteration of the loop over `sessions`.
DedupStep(map, session, active_pane_ids) ==
    IF session.pane_id \notin active_pane_ids THEN map
    ELSE IF session.pane_id \in DOMAIN map
         THEN IF session.updated > map[session.pane_id].updated
              THEN MapInsert(map, session.pane_id, session)
              ELSE map
         ELSE MapInsert(map, session.pane_id, session)

RECURSIVE DedupFold(_, _, _)
DedupFold(sessions, active_pane_ids, map) ==
    IF sessions = <<>> THEN map
    ELSE DedupFold(Tail(sessions), active_pane_ids,
                   DedupStep(map, Head(sessions), active_pane_ids))

\* HashMap::into_values().collect(): the values in the map's iteration
\* order, which std's RandomState hasher leaves unspecified and which may
\* differ between two maps with the same contents.
IntoValues(map) ==
    LET n == Cardinality(DOMAIN map)
    IN { [i \in 1..n |-> map[p[i]]] :
           p \in { q \in [1..n -> DOMAIN map] :
                     \A i, j \in 1..n : i # j => q[i] # q[j] } }

\* Mutant: the comparator with a and b exchanged (oldest first).
UpdatedAscLe(a, b) == a.updated <= b.updated

\* The comparator |a, b| b.updated.cmp(&a.updated): a is not after b.
UpdatedDescLe(a, b) == a.updated >= b.updated

\* Insert x into a sorted sequence behind every element that does not have
\* to come after it (sort_by is a stable sort).
InsertStable(sorted, x) ==
    LET k == Cardinality({ i \in 1..Len(sorted) : UpdatedDescLe(sorted[i], x) })
    IN SubSeq(sorted, 1, k) \o <<x>> \o SubSeq(sorted, k + 1, Len(sorted))

RECURSIVE SortFrom(_, _)
SortFrom(sorted, rest) ==
    IF rest = <<>> THEN sorted
    ELSE SortFrom(InsertStable(sorted, Head(rest)), Tail(rest))

SortByUpdatedDesc(v) == SortFrom(<<>>, v)

\* Mutant: a failed pane listing is taken for no live pane.
filter_active_sessions_NoPaneError(sessions, w) ==
    LET active == get_active_pane_ids(w)
    IN { Ok(SortByUpdatedDesc(v)) :
           v \in IntoValues(DedupFold(sessions, IF active.ok THEN active.val ELSE {}, <<>>)) }

\* The set of results filter_active_sessions can return: one per iteration
\* order of the HashMap.
filter_active_sessions(sessions, w) ==
    LET active == get_active_pane_ids(w)
    IN IF ~active.ok THEN { Err(active.err) }
       ELSE { Ok(SortByUpdatedDesc(v)) :
                v \in IntoValues(DedupFold(sessions, active.val, <<>>)) }

\* Mutant: the first session of the list, whatever its id.
find_session_by_id_First(sessions, session_id) ==
    IF sessions = <<>> THEN None ELSE Some(sessions[1])

\* find_session_by_id: iter().find, the first session with that id.
find_session_by_id(sessions, session_id) ==
    LET hits == { i \in 1..Len(sessions) : sessions[i].session_id = session_id }
    IN IF hits = {} THEN None
       ELSE Some(sessions[CHOOSE i \in hits : \A j \in hits : i <= j])

-----------------------------------------------------------------------------
(* session.rs: cwd_to_project_path, load_sessions_index,                   *)
(* enrich_sessions_with_index                                              *)

\* str::replace of one character by another
Replace(s, from, to) == [i \in 1..Len(s) |-> IF s[i] = from THEN to ELSE s[i]]

cwd_to_project_path(cwd) == Replace(Replace(cwd, "/", "-"), ".", "-")

ProjectDirs == { cwd_to_project_path(c) : c \in Cwds }

\* struct SessionIndexEntry
IndexEntry(sid, summary, first_prompt, message_count, git_branch, modified) ==
    [session_id |-> sid, summary |-> summary, first_prompt |-> first_prompt,
     message_count |-> message_count, git_branch |-> git_branch,
     modified |-> modified]

\* Entries with every optional field present, with only a summary, and
\* with no optional field at all.
IndexEntries ==
    { IndexEntry(sid, Some("sum"), Some("fp"), Some(5), Some("main"),
                 Some("2026-01-01T00:00:00Z")) : sid \in {"s1", "s2"} }
    \cup { IndexEntry("s1", Some("sum"), None, None, None, None),
           IndexEntry("s1", None, None, None, None, None) }

\* A sessions-index.json: absent, present but unreadable, not a SessionsIndex
\* document, or a SessionsIndex with its entries.
IndexFiles ==
    { [kind |-> k, entries |-> <<>>] : k \in {"missing", "unreadable", "malformed"} }
    \cup { [kind |-> "ok", entries |-> e] :
             e \in UNION { [1..n -> IndexEntries] : n \in 0..MaxEntries } }

\* entries.into_iter().map(..).collect::<HashMap>(): a later entry replaces
\* an earlier one with the same session_id.
RECURSIVE CollectEntries(_, _)
CollectEntries(entries, map) ==
    IF entries = <<>> THEN map
    ELSE CollectEntries(Tail(entries),
                        MapInsert(map, Head(entries).session_id, Head(entries)))

load_sessions_index(cwd, h, proj) ==
    IF ~h THEN Err("HOME not set")
    ELSE LET file == proj[cwd_to_project_path(cwd)]
         IN IF file.kind = "missing" THEN Ok(<<>>)
            ELSE IF file.kind = "unreadable" THEN Err("sessions-index.json read error")
            ELSE IF file.kind = "malformed" THEN Err("sessions-index.json parse error")
            ELSE Ok(CollectEntries(file.entries, <<>>))

\* One iteration of the first loop: Result::unwrap_or_default turns a failed
\* load into the empty map.
CacheIndex(cache, cwd, h, proj) ==
    IF cwd \in DOMAIN cache THEN cache
    ELSE LET index == load_sessions_index(cwd, h, proj)
         IN MapInsert(cache, cwd, IF index.ok THEN index.val ELSE <<>>)

RECURSIVE BuildCache(_, _, _, _)
BuildCache(sessions, h, proj, cache) ==
    IF sessions = <<>> THEN cache
    ELSE BuildCache(Tail(sessions), h, proj,
                    CacheIndex(cache, Head(sessions).cwd, h, proj))

\* Mutant: only the summary is copied from the entry.
EnrichOne_SummaryOnly(session, cache) ==
    IF session.cwd \in DOMAIN cache
    THEN IF session.session_id \in DOMAIN cache[session.cwd]
         THEN [session EXCEPT !.summary = cache[session.cwd][session.session_id].summary]
         ELSE session
    ELSE session

\* One iteration of the second loop.
EnrichOne(session, cache) ==
    IF session.cwd \in DOMAIN cache
    THEN IF session.session_id \in DOMAIN cache[session.cwd]
         THEN LET entry == cache[session.cwd][session.session_id]
              IN [session EXCEPT !.summary = entry.summary,
                                 !.first_prompt = entry.first_prompt,
                                 !.message_count = entry.message_count,
                                 !.git_branch = entry.git_branch,
                                 !.modified = entry.modified]
         ELSE session
    ELSE session

\* Mutant: the first failed index load is returned with `?`.
enrich_PropagatesLoadError(sessions, h, proj) ==
    IF \E i \in 1..Len(sessions) : ~load_sessions_index(sessions[i].cwd, h, proj).ok
    THEN Err("sessions-index.json parse error")
    ELSE LET cache == BuildCache(sessions, h, proj, <<>>)
         IN Ok([i \in 1..Len(sessions) |-> EnrichOne(sessions[i], cache)])

\* The Result of the call; val is the slice as the call leaves it.
enrich_sessions_with_index(sessions, h, proj) ==
    LET cache == BuildCache(sessions, h, proj, <<>>)
    IN Ok([i \in 1..Len(sessions) |-> EnrichOne(sessions[i], cache)])

-----------------------------------------------------------------------------
(* session.rs: load_sessions; main.rs: the aggregation pipeline *)

\* A file of the sessions directory: its extension, and whether it can be
\* read and parsed as a Session.
SessionFile(s) == [ext |-> "json", kind |-> "ok", session |-> Some(s)]
MalformedFile == [ext |-> "json", kind |-> "malformed", session |-> None]
UnreadableFile == [ext |-> "json", kind |-> "unreadable", session |-> None]
OtherFile == [ext |-> "txt", kind |-> "malformed", session |-> None]

MissingDir == [kind |-> "missing", files |-> <<>>]
UnreadableDir == [kind |-> "unreadable", files |-> <<>>]
DirOf(files) == [kind |-> "ok", files |-> files]

\* Mutant: a .json file that cannot be parsed is passed over.
RECURSIVE ReadFiles_SkipMalformed(_, _)
ReadFiles_SkipMalformed(files, sessions) ==
    IF files = <<>> THEN Ok(sessions)
    ELSE LET f == Head(files)
         IN IF f.ext = "json"
            THEN IF f.kind = "unreadable" THEN Err("file read error")
                 ELSE IF f.kind = "malformed"
                      THEN ReadFiles_SkipMalformed(Tail(files), sessions)
                 ELSE ReadFiles_SkipMalformed(Tail(files),
                                              Append(sessions, Unwrap(f.session)))
            ELSE ReadFiles_SkipMalformed(Tail(files), sessions)

\* The loop over read_dir: a .json file that cannot be read or parsed ends
\* the load with its error; other extensions are passed over.
RECURSIVE ReadFiles(_, _)
ReadFiles(files, sessions) ==
    IF files = <<>> THEN Ok(sessions)
    ELSE LET f == Head(files)
         IN IF f.ext = "json"
            THEN IF f.kind = "unreadable" THEN Err("file read error")
                 ELSE IF f.kind = "malformed" THEN Err("JSON parse error")
                 ELSE ReadFiles(Tail(files), Append(sessions, Unwrap(f.session)))
            ELSE ReadFiles(Tail(files), sessions)

load_sessions(h, dir) ==
    IF ~h THEN Err("HOME not set")
    ELSE IF dir.kind = "missing" THEN Ok(<<>>)
    ELSE IF dir.kind = "unreadable" THEN Err("sessions directory read error")
    ELSE ReadFiles(dir.files, <<>>)

\* load_sessions()?, filter_active_sessions(..)?, enrich_sessions_with_index(..)?
\* as main runs them: the set of results the three calls can end with.
load_and_filter_sessions(h, dir, w, proj) ==
    LET all == load_sessions(h, dir)
    IN IF ~all.ok THEN { Err(all.err) }
       ELSE { IF f.ok THEN enrich_sessions_with_index(f.val, h, proj) ELSE f :
                f \in filter_active_sessions(all.val, w) }

-----------------------------------------------------------------------------
(* ui.rs: struct App and its methods *)

\* Mutant: index 0 selected whatever the list.
App_new_AlwaysFirst(sessions) ==
    [sessions |-> sessions,
     state |-> Some(0),
     should_quit |-> FALSE,
     elapsed |-> 0]

\* App::new
App_new(sessions) ==
    [sessions |-> sessions,
     state |-> IF sessions # <<>> THEN Some(0) ELSE None,
     should_quit |-> FALSE,
     elapsed |-> 0]

\* Mutant: the bounds test of line 51 left out.
SelectionAfterUpdate_NoClamp(selected, len) ==
    IF len # 0
    THEN IF IsSome(selected) THEN Some(Unwrap(selected)) ELSE Some(0)
    ELSE None

\* The selection update_sessions leaves, given the one it found.
SelectionAfterUpdate(selected, len) ==
    IF len # 0
    THEN IF IsSome(selected)
         THEN IF Unwrap(selected) >= len THEN Some(len - 1)
              ELSE Some(Unwrap(selected))
         ELSE Some(0)
    ELSE None

\* Mutant: the list is replaced and the selection left as it was.
update_sessions_KeepSelection(a, sessions) ==
    [a EXCEPT !.sessions = sessions,
              !.elapsed = 0]

\* App::update_sessions
update_sessions(a, sessions) ==
    [a EXCEPT !.sessions = sessions,
              !.state = SelectionAfterUpdate(a.state, Len(sessions)),
              !.elapsed = 0]

\* Mutant: the wrap test of line 73 off by one.
NextIndex_OffByOne(selected, len) ==
    IF IsSome(selected)
    THEN IF Unwrap(selected) >= len THEN 0 ELSE Unwrap(selected) + 1
    ELSE 0

\* The index App::next selects.
NextIndex(selected, len) ==
    IF IsSome(selected)
    THEN IF Unwrap(selected) >= len - 1 THEN 0 ELSE Unwrap(selected) + 1
    ELSE 0

\* Mutant: the is_empty test of lines 67-69 left out.
next_NoEmptyCheck(a) ==
    [a EXCEPT !.state = Some(NextIndex(a.state, Len(a.sessions)))]

\* App::next
next(a) ==
    IF a.sessions = <<>> THEN a
    ELSE [a EXCEPT !.state = Some(NextIndex(a.state, Len(a.sessions)))]

\* The index App::previous selects.
PreviousIndex(selected, len) ==
    IF IsSome(selected)
    THEN IF Unwrap(selected) = 0 THEN len - 1 ELSE Unwrap(selected) - 1
    ELSE 0

\* App::previous
previous(a) ==
    IF a.sessions = <<>> THEN a
    ELSE [a EXCEPT !.state = Some(PreviousIndex(a.state, Len(a.sessions)))]

\* Mutant: the first session instead of the selected one.
selected_session_First(a) ==
    IF IsSome(a.state) /\ a.sessions # <<>> THEN Some(a.sessions[1]) ELSE None

\* Vec::get
VecGet(v, i) == IF i >= 0 /\ i < Len(v) THEN Some(v[i + 1]) ELSE None

\* App::selected_session
selected_session(a) ==
    IF IsSome(a.state) THEN VecGet(a.sessions, Unwrap(a.state)) ELSE None

\* App::quit
quit(a) == [a EXCEPT !.should_quit = TRUE]

\* Instant::elapsed grows while the program runs.
TimePasses(a) ==
    [a EXCEPT !.elapsed = IF a.elapsed < MaxElapsed THEN a.elapsed + 1 ELSE a.elapsed]

-----------------------------------------------------------------------------
(* The state of the parts a specification does not exercise *)

NotRun == Err("not run")

AggIdle ==
    /\ all_sessions = <<>>
    /\ filtered = NotRun
    /\ prev_filtered = NotRun
    /\ runs = 0

AppIdle ==
    /\ app = App_new(<<>>)
    /\ last_op = "new"
    /\ prev_selected = None

EnrichIdle ==
    /\ to_enrich = <<>>
    /\ enriched = NotRun

TuiIdle ==
    /\ tui_arg = <<>>
    /\ pc = "idle"
    /\ code = None
    /\ selected_session_id = None
    /\ tui_result = NotRun

MainIdle ==
    /\ args = <<>>
    /\ main_pc = "idle"
    /\ main_sessions = <<>>
    /\ exit_result = NotRun
    /\ stdout = <<>>
    /\ activated = None

LoadIdle == loaded = NotRun

NoIndexes == [d \in ProjectDirs |-> [kind |-> "missing", entries |-> <<>>]]
NoPanes == [status |-> "ok", panes |-> {}]

\* HOME is set, and there are no session documents, indexes or panes.
EnvIdle ==
    /\ home = TRUE
    /\ projects = NoIndexes
    /\ wezterm = NoPanes
    /\ sessions_dir = MissingDir

-----------------------------------------------------------------------------
(* Specification of filter_active_sessions as a function of its inputs *)

InitAgg ==
    /\ all_sessions \in SessionLists(MaxLen, PaneIds, {DefaultCwd}, Updated)
    /\ wezterm \in WeztermStates
    /\ filtered = NotRun
    /\ prev_filtered = NotRun
    /\ runs = 0
    /\ home = TRUE
    /\ projects = NoIndexes
    /\ sessions_dir = MissingDir
    /\ AppIdle
    /\ EnrichIdle
    /\ TuiIdle
    /\ MainIdle
    /\ LoadIdle

CallFilter ==
    /\ runs < MaxRuns
    /\ \E r \in filter_active_sessions(all_sessions, wezterm) :
          /\ filtered' = r
          /\ prev_filtered' = filtered
    /\ runs' = runs + 1
    /\ UNCHANGED <<all_sessions, envVars, appVars, enrichVars, tuiVars, mainVars, loaded>>

NextAgg == CallFilter

SpecAgg == InitAgg /\ [][NextAgg]_vars

-----------------------------------------------------------------------------
(* Specification of App driven through its methods in any order *)

AppLists == SessionLists(MaxLen, {"7", "9"}, {DefaultCwd}, {100})

InitApp ==
    /\ \E sessions \in AppLists : app = App_new(sessions)
    /\ last_op = "new"
    /\ prev_selected = None
    /\ EnvIdle
    /\ AggIdle
    /\ EnrichIdle
    /\ TuiIdle
    /\ MainIdle
    /\ LoadIdle

AppStep(op, a) ==
    /\ app' = a
    /\ last_op' = op
    /\ prev_selected' = app.state
    /\ UNCHANGED <<envVars, aggVars, enrichVars, tuiVars, mainVars, loaded>>

CallUpdateSessions ==
    \E sessions \in AppLists :
        AppStep("update_sessions", update_sessions(app, sessions))
CallNext == AppStep("next", next(app))
CallPrevious == AppStep("previous", previous(app))
CallQuit == ~app.should_quit /\ AppStep("quit", quit(app))
ClockAdvances == app.elapsed < MaxElapsed /\ AppStep("clock", TimePasses(app))

NextApp ==
    \/ CallUpdateSessions
    \/ CallNext
    \/ CallPrevious
    \/ CallQuit
    \/ ClockAdvances

SpecApp == InitApp /\ [][NextApp]_vars

-----------------------------------------------------------------------------
(* Specification of enrich_sessions_with_index as a function of its inputs *)

InitEnrich ==
    /\ to_enrich \in SessionLists(MaxLen, {"7"}, Cwds, {100})
    /\ enriched = NotRun
    /\ home \in BOOLEAN
    /\ projects \in [ProjectDirs -> IndexFiles]
    /\ wezterm = NoPanes
    /\ sessions_dir = MissingDir
    /\ AggIdle
    /\ AppIdle
    /\ TuiIdle
    /\ MainIdle
    /\ LoadIdle

CallEnrich ==
    /\ enriched = NotRun
    /\ enriched' = enrich_sessions_with_index(to_enrich, home, projects)
    /\ UNCHANGED <<to_enrich, envVars, aggVars, appVars, tuiVars, mainVars, loaded>>

NextEnrich == CallEnrich

SpecEnrich == InitEnrich /\ [][NextEnrich]_vars

-----------------------------------------------------------------------------
(* Specification of enrich_sessions_with_index on any slice: Session's     *)
(* fields are public, so a caller can pass sessions that already carry     *)
(* enrichment fields.                                                      *)

AlreadyEnriched(s) ==
    [s EXCEPT !.summary = Some("old sum"),
              !.first_prompt = Some("old fp"),
              !.message_count = Some(1),
              !.git_branch = Some("dev"),
              !.modified = Some("2025-01-01T00:00:00Z")]

AnySessionLists ==
    { [i \in 1..Len(l) |-> IF i \in P THEN AlreadyEnriched(l[i]) ELSE l[i]] :
        l \in SessionLists(MaxLen, {"7"}, {<<"/", "a", "/", "b">>, <<"/", "c">>}, {100}),
        P \in SUBSET (1..MaxLen) }

InitEnrichAny ==
    /\ to_enrich \in AnySessionLists
    /\ enriched = NotRun
    /\ home \in BOOLEAN
    /\ projects \in [ProjectDirs -> IndexFiles]
    /\ wezterm = NoPanes
    /\ sessions_dir = MissingDir
    /\ AggIdle
    /\ AppIdle
    /\ TuiIdle
    /\ MainIdle
    /\ LoadIdle

SpecEnrichAny == InitEnrichAny /\ [][NextEnrich]_vars

-----------------------------------------------------------------------------
(* Specification of load_sessions on any sessions directory *)

\* The i-th file of a directory: a session document, a .json file that does
\* not parse, one that cannot be read, or a file of another extension.
FilesAt(i) ==
    { SessionFile(Session(SessionIdAt[i], p, DefaultCwd, 100)) : p \in {"7", "9"} }
    \cup { MalformedFile, UnreadableFile, OtherFile }

RECURSIVE FileListsOfLen(_)
FileListsOfLen(n) ==
    IF n = 0 THEN { <<>> }
    ELSE { Append(l, f) : l \in FileListsOfLen(n - 1), f \in FilesAt(n) }

LoadDirs ==
    { MissingDir, UnreadableDir }
    \cup { DirOf(l) : l \in UNION { FileListsOfLen(n) : n \in 0..(MaxFiles + 1) } }

InitLoad ==
    /\ home \in BOOLEAN
    /\ sessions_dir \in LoadDirs
    /\ loaded = NotRun
    /\ projects = NoIndexes
    /\ wezterm = NoPanes
    /\ AggIdle
    /\ AppIdle
    /\ EnrichIdle
    /\ TuiIdle
    /\ MainIdle

CallLoad ==
    /\ loaded = NotRun
    /\ loaded' = load_sessions(home, sessions_dir)
    /\ UNCHANGED <<envVars, aggVars, appVars, enrichVars, tuiVars, mainVars>>

NextLoad == CallLoad

SpecLoad == InitLoad /\ [][NextLoad]_vars

-----------------------------------------------------------------------------
(* ui.rs: run_tui.  The session documents, the live panes and the health   *)
(* of the pane listing are the environment of the loop; the panes and the  *)
(* pane listing change while it runs.                                      *)

\* Duration::from_secs(1) of the refresh test, in seconds.
RefreshInterval == 1

\* The KeyCodes the match of lines 349-367 tells apart; "x" stands for every
\* key that falls to the `_` arm.
KeyCodes == {"q", "Down", "j", "Up", "k", "Enter", "x"}

TuiPanes == {"7", "9"}
TuiDirs ==
    { MissingDir, DirOf(<<MalformedFile>>) }
    \cup { DirOf([i \in 1..Len(l) |-> SessionFile(l[i])]) :
             l \in SessionLists(MaxFiles, TuiPanes, {DefaultCwd}, Updated) }
TuiWezterm == { w \in WeztermStates : w.panes \subseteq TuiPanes }

\* What the aggregation pipeline returns in the current environment.
Aggregates == load_and_filter_sessions(home, sessions_dir, wezterm, projects)

\* The lists run_tui is given: the ones the pipeline yields.
InitTui ==
    /\ home = TRUE
    /\ projects = NoIndexes
    /\ sessions_dir \in TuiDirs
    /\ wezterm \in TuiWezterm
    /\ tui_arg \in { r.val : r \in { x \in Aggregates : x.ok } }
    /\ pc = "setup"
    /\ code = None
    /\ selected_session_id = None
    /\ tui_result = NotRun
    /\ AppIdle
    /\ AggIdle
    /\ EnrichIdle
    /\ MainIdle
    /\ LoadIdle

TuiFrame ==
    UNCHANGED <<envVars, aggVars, enrichVars, last_op, prev_selected, tui_arg,
                mainVars, loaded>>

\* A `?` on a terminal call returns its io::Error from run_tui.
IoError(call) ==
    /\ pc' = "failed"
    /\ tui_result' = Err(call)
    /\ UNCHANGED <<app, code, selected_session_id>>
    /\ TuiFrame

\* Lines 334-341: raw mode, alternate screen, Terminal, App::new.
Setup ==
    /\ pc = "setup"
    /\ app' = App_new(tui_arg)
    /\ selected_session_id' = None
    /\ pc' = "draw"
    /\ UNCHANGED <<code, tui_result>>
    /\ TuiFrame

SetupFails == pc = "setup" /\ IoError("enable_raw_mode")

\* Line 344: terminal.draw
Draw ==
    /\ pc = "draw"
    /\ pc' = "poll"
    /\ UNCHANGED <<app, code, selected_session_id, tui_result>>
    /\ TuiFrame

DrawFails == pc = "draw" /\ IoError("terminal.draw")

\* The clock since last_update after a wait of at most 100 ms: it has moved
\* on by less than a second.
AfterWait(a) == { a, TimePasses(a) }

\* Line 347: event::poll returned false after its timeout.
PollTimeout ==
    /\ pc = "poll"
    /\ app' \in AfterWait(app)
    /\ pc' = "refresh"
    /\ UNCHANGED <<code, selected_session_id, tui_result>>
    /\ TuiFrame

PollFails == pc = "poll" /\ IoError("event::poll")

\* Lines 347-348: an event that is not a key press (resize, mouse, ...).
OtherEvent ==
    /\ pc = "poll"
    /\ app' \in AfterWait(app)
    /\ pc' = "refresh"
    /\ UNCHANGED <<code, selected_session_id, tui_result>>
    /\ TuiFrame

\* Mutant: the quit key sets the flag and the loop goes on.
KeyQuit_NoBreak ==
    /\ pc = "poll"
    /\ code' = Some("q")
    /\ \E a \in AfterWait(app) : app' = quit(a)
    /\ pc' = "refresh"
    /\ UNCHANGED <<selected_session_id, tui_result>>
    /\ TuiFrame

\* Lines 350-353
KeyQuit ==
    /\ pc = "poll"
    /\ code' = Some("q")
    /\ \E a \in AfterWait(app) : app' = quit(a)
    /\ pc' = "cleanup"
    /\ UNCHANGED <<selected_session_id, tui_result>>
    /\ TuiFrame

\* Lines 354-356
KeyDown ==
    /\ pc = "poll"
    /\ \E k \in {"Down", "j"} : code' = Some(k)
    /\ \E a \in AfterWait(app) : app' = next(a)
    /\ pc' = "refresh"
    /\ UNCHANGED <<selected_session_id, tui_result>>
    /\ TuiFrame

\* Lines 357-359
KeyUp ==
    /\ pc = "poll"
    /\ \E k \in {"Up", "k"} : code' = Some(k)
    /\ \E a \in AfterWait(app) : app' = previous(a)
    /\ pc' = "refresh"
    /\ UNCHANGED <<selected_session_id, tui_result>>
    /\ TuiFrame

\* Lines 360-365
KeyEnter ==
    /\ pc = "poll"
    /\ code' = Some("Enter")
    /\ app' \in AfterWait(app)
    /\ IF IsSome(selected_session(app))
       THEN /\ selected_session_id' = Some(Unwrap(selected_session(app)).session_id)
            /\ pc' = "cleanup"
       ELSE /\ selected_session_id' = selected_session_id
            /\ pc' = "refresh"
    /\ UNCHANGED tui_result
    /\ TuiFrame

\* Line 366
KeyOther ==
    /\ pc = "poll"
    /\ code' = Some("x")
    /\ app' \in AfterWait(app)
    /\ pc' = "refresh"
    /\ UNCHANGED <<selected_session_id, tui_result>>
    /\ TuiFrame

\* Line 348: event::read
ReadFails == pc = "poll" /\ IoError("event::read")

\* Lines 371-375: the refresh is commented out, so the end of an iteration
\* goes back to the top of the loop and touches nothing; `code` goes out
\* of scope.
EndOfIteration ==
    /\ pc = "refresh"
    /\ pc' = "draw"
    /\ code' = None
    /\ UNCHANGED <<app, selected_session_id, tui_result>>
    /\ TuiFrame

\* Lines 378-383: leave raw mode and the alternate screen, return.
Cleanup ==
    /\ pc = "cleanup"
    /\ pc' = "done"
    /\ tui_result' = Ok(selected_session_id)
    /\ UNCHANGED <<app, code, selected_session_id>>
    /\ TuiFrame

CleanupFails == pc = "cleanup" /\ IoError("disable_raw_mode")

TuiRunning == pc \in {"setup", "draw", "poll", "refresh", "cleanup"}

\* A pane opens or closes while the dashboard runs.
PaneChanges ==
    /\ TuiRunning
    /\ wezterm.status = "ok"
    /\ \E p \in TuiPanes :
          wezterm' = [wezterm EXCEPT !.panes =
                         IF p \in @ THEN @ \ {p} ELSE @ \cup {p}]
    /\ UNCHANGED <<home, projects, sessions_dir, aggVars, enrichVars, appVars, tuiVars,
                 mainVars, loaded>>

\* The pane listing starts or stops failing while the dashboard runs.
WeztermChanges ==
    /\ TuiRunning
    /\ \E w \in TuiWezterm :
          /\ (w.status = "ok") # (wezterm.status = "ok")
          /\ wezterm' = w
    /\ UNCHANGED <<home, projects, sessions_dir, aggVars, enrichVars, appVars, tuiVars,
                 mainVars, loaded>>

NextTui ==
    \/ Setup
    \/ SetupFails
    \/ Draw
    \/ DrawFails
    \/ PollTimeout
    \/ PollFails
    \/ OtherEvent
    \/ KeyQuit
    \/ KeyDown
    \/ KeyUp
    \/ KeyEnter
    \/ KeyOther
    \/ ReadFails
    \/ EndOfIteration
    \/ Cleanup
    \/ CleanupFails
    \/ PaneChanges
    \/ WeztermChanges

SpecTui == InitTui /\ [][NextTui]_vars

\* The session documents a terminating run is checked on: all written at
\* the same time.
FairDirs ==
    { MissingDir }
    \cup { DirOf([i \in 1..Len(l) |-> SessionFile(l[i])]) :
             l \in SessionLists(MaxFiles, TuiPanes, {DefaultCwd}, {100}) }

InitTuiFair ==
    /\ home = TRUE
    /\ projects = NoIndexes
    /\ sessions_dir \in FairDirs
    /\ wezterm \in TuiWezterm
    /\ tui_arg \in { r.val : r \in { x \in Aggregates : x.ok } }
    /\ pc = "setup"
    /\ code = None
    /\ selected_session_id = None
    /\ tui_result = NotRun
    /\ AppIdle
    /\ AggIdle
    /\ EnrichIdle
    /\ MainIdle
    /\ LoadIdle

\* The steps of run_tui itself, as opposed to those of its environment.
LoopStep ==
    \/ Setup
    \/ SetupFails
    \/ Draw
    \/ DrawFails
    \/ PollTimeout
    \/ PollFails
    \/ OtherEvent
    \/ KeyQuit
    \/ KeyDown
    \/ KeyUp
    \/ KeyEnter
    \/ KeyOther
    \/ ReadFails
    \/ EndOfIteration
    \/ Cleanup
    \/ CleanupFails

\* run_tui is the one thread of the program and none of its calls blocks
\* for good (event::poll returns after 100 ms at the latest, event::read is
\* called only when poll found an event), so it takes a step whenever it
\* can; and the user presses the quit key at some point if the loop keeps
\* waiting for input.
SpecTuiFair ==
    /\ InitTuiFair
    /\ [][NextTui]_vars
    /\ WF_vars(LoopStep)
    /\ SF_vars(KeyQuit)

-----------------------------------------------------------------------------
(* main.rs: main, one run of the program from its arguments to its exit,   *)
(* with run_tui as above and wezterm.rs: jump_to_pane.  The environment    *)
(* changes only while the dashboard runs.                                  *)

Program == "claude-watch"
ArgLists ==
    { <<Program>>, <<Program, "jump">>, <<Program, "list">>, <<Program, "tui">>,
      <<Program, "watch">>, <<Program, "help">> }
    \cup { <<Program, "jump", id>> : id \in {"s1", "s2", "s9"} }

\* The unit value of Ok(()).
Unit == <<>>

\* wezterm.rs: the results `wezterm cli activate-pane` can end with: the
\* process cannot be launched, it exits non-zero, or it succeeds.
jump_to_pane(pane_id) ==
    { Err("WezTerm command failed to run"), Err("jump to pane failed"), Ok(Unit) }

InitMain ==
    /\ home \in BOOLEAN
    /\ projects = NoIndexes
    /\ sessions_dir \in TuiDirs
    /\ wezterm \in TuiWezterm
    /\ args \in ArgLists
    /\ main_pc = "aggregate"
    /\ main_sessions = <<>>
    /\ exit_result = NotRun
    /\ stdout = <<>>
    /\ activated = None
    /\ AppIdle
    /\ AggIdle
    /\ EnrichIdle
    /\ TuiIdle
    /\ LoadIdle

MainFrame == UNCHANGED <<envVars, aggVars, appVars, enrichVars, tuiVars, loaded, args>>

\* `return` of main with a result, nothing printed or activated on the way.
Return(r) ==
    /\ exit_result' = r
    /\ main_pc' = "exit"
    /\ UNCHANGED <<main_sessions, stdout, activated>>
    /\ MainFrame

\* Lines 15-19, the three calls succeeding.
Aggregate ==
    /\ main_pc = "aggregate"
    /\ \E r \in Aggregates : r.ok /\ main_sessions' = r.val
    /\ main_pc' = "loaded"
    /\ UNCHANGED <<exit_result, stdout, activated>>
    /\ MainFrame

\* Lines 15-19, one of the three `?` returning its error.
AggregateFails ==
    /\ main_pc = "aggregate"
    /\ \E r \in Aggregates : ~r.ok /\ Return(Err(r.err))

\* Lines 21-24
NoSessions ==
    /\ main_pc = "loaded"
    /\ main_sessions = <<>>
    /\ stdout' = Append(stdout, "no active sessions")
    /\ exit_result' = Ok(Unit)
    /\ main_pc' = "exit"
    /\ UNCHANGED <<main_sessions, activated>>
    /\ MainFrame

\* The dispatch of lines 27-75 is reached with a non-empty list.
Dispatching == main_pc = "loaded" /\ main_sessions # <<>>
Subcommand(name) == Len(args) >= 2 /\ args[2] = name

\* jump_to_pane(&session.pane_id)?, then the Ok(()) of line 77.
JumpTo(session) ==
    /\ activated' = Some(session.pane_id)
    /\ \E r \in jump_to_pane(session.pane_id) :
          /\ exit_result' = r
          /\ stdout' = IF r.ok THEN Append(stdout, "jumped") ELSE stdout
    /\ main_pc' = "exit"
    /\ UNCHANGED main_sessions
    /\ MainFrame

\* Lines 30-32
JumpUsage ==
    /\ Dispatching
    /\ Subcommand("jump")
    /\ Len(args) < 3
    /\ Return(Err("usage: claude-watch jump <session_id>"))

\* Lines 33-35
JumpFound ==
    /\ Dispatching
    /\ Subcommand("jump")
    /\ Len(args) >= 3
    /\ IsSome(find_session_by_id(main_sessions, args[3]))
    /\ JumpTo(Unwrap(find_session_by_id(main_sessions, args[3])))

\* Lines 36-38
JumpNotFound ==
    /\ Dispatching
    /\ Subcommand("jump")
    /\ Len(args) >= 3
    /\ find_session_by_id(main_sessions, args[3]) = None
    /\ Return(Err("session id not found"))

\* Lines 40-43
List ==
    /\ Dispatching
    /\ Subcommand("list")
    /\ stdout' = Append(stdout, "listing")
    /\ exit_result' = Ok(Unit)
    /\ main_pc' = "exit"
    /\ UNCHANGED <<main_sessions, activated>>
    /\ MainFrame

\* Lines 56-63
UnknownCommand ==
    /\ Dispatching
    /\ Len(args) >= 2
    /\ args[2] \notin {"jump", "list", "tui", "watch"}
    /\ stdout' = Append(stdout, "usage")
    /\ exit_result' = Ok(Unit)
    /\ main_pc' = "exit"
    /\ UNCHANGED <<main_sessions, activated>>
    /\ MainFrame

\* Lines 46 and 67: run_tui(sessions) is entered.
CallRunTui ==
    /\ Dispatching
    /\ Len(args) < 2 \/ Subcommand("tui") \/ Subcommand("watch")
    /\ tui_arg' = main_sessions
    /\ pc' = "setup"
    /\ main_pc' = "tui"
    /\ UNCHANGED <<args, main_sessions, exit_result, stdout, activated>>
    /\ UNCHANGED <<envVars, aggVars, appVars, enrichVars, loaded,
                   code, selected_session_id, tui_result>>

\* run_tui(sessions)? returning the dashboard's error.
RunTuiFails ==
    /\ main_pc = "tui"
    /\ pc = "failed"
    /\ Return(Err(tui_result.err))

\* run_tui returned None: the `if let` is passed over.
RunTuiNone ==
    /\ main_pc = "tui"
    /\ pc = "done"
    /\ tui_result.val = None
    /\ Return(Ok(Unit))

\* Lines 48-50 and 68-70, the three calls succeeding.
Reaggregate ==
    /\ main_pc = "tui"
    /\ pc = "done"
    /\ IsSome(tui_result.val)
    /\ \E r \in Aggregates : r.ok /\ main_sessions' = r.val
    /\ main_pc' = "confirm"
    /\ UNCHANGED <<exit_result, stdout, activated>>
    /\ MainFrame

\* Lines 48-50 and 68-70, one of the three `?` returning its error.
ReaggregateFails ==
    /\ main_pc = "tui"
    /\ pc = "done"
    /\ IsSome(tui_result.val)
    /\ \E r \in Aggregates : ~r.ok /\ Return(Err(r.err))

\* Lines 51-53 and 71-73, the session found.
JumpConfirmed ==
    /\ main_pc = "confirm"
    /\ IsSome(find_session_by_id(main_sessions, Unwrap(tui_result.val)))
    /\ JumpTo(Unwrap(find_session_by_id(main_sessions, Unwrap(tui_result.val))))

\* Lines 51-53 and 71-73, the session gone.
ConfirmedGone ==
    /\ main_pc = "confirm"
    /\ find_session_by_id(main_sessions, Unwrap(tui_result.val)) = None
    /\ Return(Ok(Unit))

\* A new Claude session writes its document into the sessions directory
\* while the dashboard runs.
SessionStarts ==
    /\ main_pc = "tui"
    /\ TuiRunning
    /\ sessions_dir.kind = "ok"
    /\ Len(sessions_dir.files) < MaxFiles
    /\ \E p \in TuiPanes :
          sessions_dir' =
              DirOf(Append(sessions_dir.files,
                           SessionFile(Session(SessionIdAt[Len(sessions_dir.files) + 1],
                                               p, DefaultCwd, 200))))
    /\ UNCHANGED <<wezterm, home, projects, aggVars, enrichVars, appVars, tuiVars,
                   mainVars, loaded>>

NextMain ==
    \/ Aggregate
    \/ AggregateFails
    \/ NoSessions
    \/ JumpUsage
    \/ JumpFound
    \/ JumpNotFound
    \/ List
    \/ UnknownCommand
    \/ CallRunTui
    \/ RunTuiFails
    \/ RunTuiNone
    \/ Reaggregate
    \/ ReaggregateFails
    \/ JumpConfirmed
    \/ ConfirmedGone
    \/ SessionStarts
    \/ NextTui

SpecMain == InitMain /\ [][NextMain]_vars

-----------------------------------------------------------------------------
(* Claims about filter_active_sessions *)

InputAt(pane) == { i \in 1..Len(all_sessions) : all_sessions[i].pane_id = pane }
Out == filtered.val
LivePanes == wezterm.panes

\* C1: the output holds at most one entry per pane_id, and that entry's
\* `updated` is the maximum `updated` among all input records of that pane.
C1_OnePerPaneFreshest ==
    filtered.ok =>
        /\ \A i, j \in 1..Len(Out) : i # j => Out[i].pane_id # Out[j].pane_id
        /\ \A k \in 1..Len(Out) :
              /\ \E i \in InputAt(Out[k].pane_id) :
                    all_sessions[i].updated = Out[k].updated
              /\ \A i \in InputAt(Out[k].pane_id) :
                    all_sessions[i].updated <= Out[k].updated

\* The dedup scenario: pane 7 has records updated at 100 and then at 200,
\* pane 7 is live, and the call returned one record for it.
C1_Witness ==
    /\ filtered.ok
    /\ \E i, j \in InputAt("7") :
          i < j /\ all_sessions[i].updated = 100 /\ all_sessions[j].updated = 200
    /\ \E k \in 1..Len(Out) : Out[k].pane_id = "7" /\ Out[k].updated = 200

\* C2: every entry of the output has a pane_id in the live-pane set of the
\* call; a record whose pane is not live never appears.
C2_OnlyLivePanes ==
    filtered.ok =>
        /\ \A k \in 1..Len(Out) : Out[k].pane_id \in LivePanes
        /\ \A i \in 1..Len(all_sessions) :
              all_sessions[i].pane_id \notin LivePanes =>
                  \A k \in 1..Len(Out) : Out[k] # all_sessions[i]

\* The filtered-out scenario: a record for pane 9 exists, the live set is
\* {7}, and the call returned the record of pane 7.
C2_Witness ==
    /\ filtered.ok
    /\ LivePanes = {"7"}
    /\ InputAt("9") # {}
    /\ Len(Out) = 1

\* C3: the output is ordered by `updated` descending.
C3_SortedDesc ==
    filtered.ok =>
        \A k \in 1..(Len(Out) - 1) : Out[k].updated >= Out[k + 1].updated

\* Three live panes whose records arrive oldest first, and an output that
\* holds both timestamps.
C3_Witness ==
    /\ filtered.ok
    /\ Len(Out) = 3
    /\ all_sessions[1].updated = 100
    /\ all_sessions[3].updated = 200
    /\ Out[1].updated = 200
    /\ Out[3].updated = 100

\* C4: two runs of filter_active_sessions on the same session records and
\* the same live-pane set return the same sequence, ties included.
C4_SameOrderTwice ==
    (runs = 2 /\ filtered.ok /\ prev_filtered.ok) => filtered = prev_filtered

-----------------------------------------------------------------------------
(* Claims about App *)

AppLen == Len(app.sessions)

\* C5: update_sessions preserves the positional selection: index i stays
\* selected when the new list has at least i+1 entries, a shorter non-empty
\* list of length m selects m-1, an empty list clears the selection, and
\* with nothing selected a non-empty list selects index 0.
C5_SelectionPreserved ==
    last_op = "update_sessions" =>
        /\ \A i \in prev_selected :
              /\ AppLen >= i + 1 => app.state = Some(i)
              /\ (AppLen <= i /\ AppLen > 0) => app.state = Some(AppLen - 1)
        /\ AppLen = 0 => app.state = None
        /\ (prev_selected = None /\ AppLen > 0) => app.state = Some(0)

\* Index 2 was selected and the list was replaced by one of length 1.
C5_Witness ==
    /\ last_op = "update_sessions"
    /\ prev_selected = Some(2)
    /\ AppLen = 1
    /\ app.state = Some(0)

\* C6: movement is cyclic: on a non-empty list of length n, next on index
\* n-1 selects 0, previous on index 0 selects n-1, and otherwise next and
\* previous move the selected index by exactly +1 and -1.
C6_CyclicMovement ==
    \A i \in prev_selected :
        /\ (last_op = "next" /\ AppLen > 0) =>
              app.state = Some(IF i = AppLen - 1 THEN 0 ELSE i + 1)
        /\ (last_op = "previous" /\ AppLen > 0) =>
              app.state = Some(IF i = 0 THEN AppLen - 1 ELSE i - 1)

\* next ran with the last of three entries selected and wrapped to index 0.
C6_Witness ==
    /\ last_op = "next"
    /\ AppLen = 3
    /\ prev_selected = Some(2)
    /\ app.state = Some(0)

-----------------------------------------------------------------------------
(* Claims about enrich_sessions_with_index *)

IndexFileOf(cwd) == projects[cwd_to_project_path(cwd)]
IndexLoadFails(cwd) == ~home \/ IndexFileOf(cwd).kind \in {"unreadable", "malformed"}
\* The entries of the index document of s's cwd that carry s's session_id;
\* the last of them is the one a reader of the document ends up with.
EntryIndexes(s) ==
    { k \in 1..Len(IndexFileOf(s.cwd).entries) :
        IndexFileOf(s.cwd).entries[k].session_id = s.session_id }
HasEntry(s) == ~IndexLoadFails(s.cwd) /\ EntryIndexes(s) # {}
EntryOf(s) ==
    IndexFileOf(s.cwd).entries[CHOOSE k \in EntryIndexes(s) :
                                  \A j \in EntryIndexes(s) : j <= k]
EnrichmentFields == {"summary", "first_prompt", "message_count", "git_branch", "modified"}
RecordFields == {"session_id", "pane_id", "cwd", "status", "notification_message", "updated"}

Unenriched(s) ==
    /\ s.summary = None
    /\ s.first_prompt = None
    /\ s.message_count = None
    /\ s.git_branch = None
    /\ s.modified = None

\* C10: enrich_sessions_with_index never returns an error because a project
\* index failed to load: the sessions of that cwd are left unenriched, the
\* sessions of a cwd whose index loads are still enriched from their entry,
\* and no session is removed from the list.
C10_IndexFailureIsolated ==
    enriched # NotRun =>
        /\ enriched.ok
        /\ Len(enriched.val) = Len(to_enrich)
        /\ \A i \in 1..Len(to_enrich) :
              /\ enriched.val[i].session_id = to_enrich[i].session_id
              /\ enriched.val[i].cwd = to_enrich[i].cwd
              /\ IndexLoadFails(to_enrich[i].cwd) =>
                    (enriched.val[i] = to_enrich[i] /\ Unenriched(enriched.val[i]))
              /\ (~IndexLoadFails(to_enrich[i].cwd) /\ HasEntry(to_enrich[i])) =>
                    enriched.val[i].summary = EntryOf(to_enrich[i]).summary

\* The index of /a/b is malformed and the index of /c loads: the session in
\* /a/b stays unenriched and the session in /c has its summary.
C10_Witness ==
    /\ enriched.ok
    /\ home
    /\ Len(to_enrich) = 2
    /\ to_enrich[1].cwd = <<"/", "a", "/", "b">>
    /\ to_enrich[2].cwd = <<"/", "c">>
    /\ IndexFileOf(to_enrich[1].cwd).kind = "malformed"
    /\ IndexFileOf(to_enrich[2].cwd).kind = "ok"
    /\ Unenriched(enriched.val[1])
    /\ enriched.val[2].summary = Some("sum")

-----------------------------------------------------------------------------
(* Claims about run_tui *)

RefreshDue == app.elapsed >= RefreshInterval
LoopGoesOn == pc = "refresh" /\ pc' # pc

\* C7: whatever the key input, once the refresh interval has elapsed since
\* the last refresh the loop re-runs the aggregation pipeline and hands its
\* result to update_sessions, so the list shows the current session store
\* and live panes.
C7_RefreshWhenDue ==
    [][ (LoopGoesOn /\ RefreshDue /\ \E r \in Aggregates : r.ok) =>
            Ok(app'.sessions) \in Aggregates ]_vars

\* C8: a failed refresh is swallowed: the loop goes on with the list and the
\* selection it had, and the refresh clock is reset so that the next attempt
\* waits for the next interval.
C8_FailedRefreshSwallowed ==
    [][ (LoopGoesOn /\ RefreshDue /\ \E r \in Aggregates : ~r.ok) =>
            /\ pc' = "draw"
            /\ app'.sessions = app.sessions
            /\ app'.state = app.state
            /\ app'.elapsed = 0 ]_vars

LoopLeft == pc \in {"cleanup", "done", "failed"}

\* C9: the quit key ends the loop with no selection whatever is selected;
\* the confirm key with a session selected ends it yielding that session's
\* session_id; the confirm key with nothing selected does not end it.
C9_QuitAndConfirm ==
    /\ code = Some("q") =>
          /\ LoopLeft
          /\ selected_session_id = None
          /\ pc = "done" => tui_result = Ok(None)
    /\ code = Some("Enter") =>
          /\ \A i \in app.state :
                /\ LoopLeft
                /\ selected_session_id = Some(app.sessions[i + 1].session_id)
                /\ pc = "done" => tui_result = Ok(selected_session_id)
          /\ app.state = None =>
                /\ pc = "refresh"
                /\ selected_session_id = None
                /\ tui_result = NotRun

\* The confirm key arrived with the second of two sessions selected, and
\* run_tui returned that session's id.
C9_Witness ==
    /\ pc = "done"
    /\ code = Some("Enter")
    /\ Len(app.sessions) = 2
    /\ app.state = Some(1)
    /\ tui_result = Ok(Some(app.sessions[2].session_id))

\* The confirm key arrived with an empty list: the loop goes on.
C9_WitnessNoSelection ==
    /\ pc = "refresh"
    /\ code = Some("Enter")
    /\ app.sessions = <<>>
    /\ app.state = None

C12_PopulatedIffEntry ==
    enriched # NotRun =>
        /\ enriched.ok
        /\ \A i \in 1..Len(to_enrich) :
              ~Unenriched(enriched.val[i]) <=> HasEntry(to_enrich[i])

\* C12 amended: the call raises no error; a session whose cwd's index loads
\* and holds an entry with its session_id has each of the five fields equal
\* to that entry's field (set or unset as in the entry), and every other
\* session has all five unset.
C12_FieldsAreTheEntrys ==
    enriched # NotRun =>
        /\ enriched.ok
        /\ \A i \in 1..Len(to_enrich) :
              IF HasEntry(to_enrich[i])
              THEN \A f \in EnrichmentFields :
                      enriched.val[i][f] = EntryOf(to_enrich[i])[f]
              ELSE Unenriched(enriched.val[i])

\* A session matched by an entry that carries only a summary, next to one
\* with no entry.
C12_Witness ==
    /\ enriched.ok
    /\ Len(to_enrich) = 2
    /\ HasEntry(to_enrich[1])
    /\ enriched.val[1].summary = Some("sum")
    /\ enriched.val[1].first_prompt = None
    /\ ~HasEntry(to_enrich[2])
    /\ Unenriched(enriched.val[2])

-----------------------------------------------------------------------------
(* Claims about main *)

Exited == main_pc = "exit"
OneShot == Len(args) >= 2 /\ args[2] \notin {"tui", "watch"}
DashboardMode == Len(args) < 2 \/ args[2] \in {"tui", "watch"}

\* C13: `jump <id>` exits with an error whenever <id> matches no session of
\* the aggregated list, the empty aggregated list included.
C13_JumpUnknownIdFails ==
    (Exited /\ Subcommand("jump") /\ Len(args) >= 3
        /\ find_session_by_id(main_sessions, args[3]) = None)
    => ~exit_result.ok

\* C14: in the empty environment (no sessions directory) a run in dashboard
\* mode that ends without an error has run the dashboard, on zero sessions
\* and with nothing selected.
C14_EmptyEnvironmentRunsDashboard ==
    (Exited /\ DashboardMode /\ home /\ sessions_dir = MissingDir /\ exit_result.ok)
    => (pc = "done" /\ tui_arg = <<>> /\ app.sessions = <<>> /\ app.state = None)

\* C16: while the pane listing fails, filter_active_sessions returns its
\* error and no list, and a one-shot run of main prints nothing, activates
\* no pane and ends with an error, the pane listing's when the load worked.
C16_PaneFailureAborts ==
    wezterm.status # "ok" =>
        LET all == load_sessions(home, sessions_dir)
        IN /\ all.ok => \A r \in filter_active_sessions(all.val, wezterm) :
                            r = Err(get_active_pane_ids(wezterm).err)
           /\ OneShot =>
                 /\ stdout = <<>>
                 /\ activated = None
                 /\ Exited => /\ ~exit_result.ok
                              /\ all.ok => exit_result =
                                              Err(get_active_pane_ids(wezterm).err)

\* `list` over two session documents while `wezterm cli list` exits non-zero.
C16_Witness ==
    /\ Exited
    /\ args = <<Program, "list">>
    /\ wezterm.status = "exit_nonzero"
    /\ Len(sessions_dir.files) = 2
    /\ load_sessions(home, sessions_dir).ok
    /\ exit_result = Err("WezTerm cli command failed")
    /\ stdout = <<>>

-----------------------------------------------------------------------------
(* Claims about load_sessions *)

IsJson(f) == f.ext = "json"
JsonFiles == SelectSeq(sessions_dir.files, IsJson)

\* C15: load_sessions is fail-fast: with a malformed .json document in the
\* directory the load is an error carrying no session; and a load that
\* succeeds returns the session of every .json document, in order, none
\* skipped.
C15_LoadFailFast ==
    loaded # NotRun =>
        /\ (home /\ \E i \in 1..Len(JsonFiles) : JsonFiles[i].kind = "malformed")
              => (~loaded.ok /\ loaded.val = <<>>)
        /\ loaded.ok =>
              /\ Len(loaded.val) = Len(JsonFiles)
              /\ \A k \in 1..Len(JsonFiles) :
                    JsonFiles[k].session = Some(loaded.val[k])

\* Two well-formed documents around a malformed one: the load is the parse
\* error.
C15_Witness ==
    /\ home
    /\ Len(sessions_dir.files) = 3
    /\ sessions_dir.files[1].kind = "ok"
    /\ sessions_dir.files[2] = MalformedFile
    /\ sessions_dir.files[3].kind = "ok"
    /\ loaded = Err("JSON parse error")

-----------------------------------------------------------------------------
(* Further claims about App *)

\* C17: App::new selects index 0 if the initial session list is non-empty
\* and selects nothing if it is empty.
C17_NewSelectsFirst ==
    last_op = "new" =>
        app.state = (IF app.sessions # <<>> THEN Some(0) ELSE None)

\* A new App over two sessions.
C17_Witness ==
    /\ last_op = "new"
    /\ AppLen = 2
    /\ app.state = Some(0)

\* C18: in every state reached from App::new by update_sessions, next and
\* previous, nothing is selected exactly when the list is empty, a selected
\* index i has 0 <= i < len(sessions), and selected_session returns a
\* session whenever the list is non-empty.
C18_SelectionInRange ==
    /\ app.state = None <=> app.sessions = <<>>
    /\ \A i \in app.state : 0 <= i /\ i < AppLen
    /\ app.sessions # <<>> =>
          \E i \in app.state : selected_session(app) = Some(app.sessions[i + 1])

\* The last of three was selected and the list shrank to two.
C18_Witness ==
    /\ last_op = "update_sessions"
    /\ prev_selected = Some(2)
    /\ AppLen = 2
    /\ app.state = Some(1)
    /\ selected_session(app) = Some(app.sessions[2])

\* C19: next and previous leave the session list, the quit flag and the
\* clock as they are, and on an empty list they leave the selection none.
C19_MovementFrame ==
    [][ last_op' \in {"next", "previous"} =>
            /\ app'.sessions = app.sessions
            /\ app'.should_quit = app.should_quit
            /\ app'.elapsed = app.elapsed
            /\ app.sessions = <<>> => (app'.state = None /\ app.state = None)
      ]_vars

\* next ran on an empty list after quit: nothing selected, the flag still set.
C19_Witness ==
    /\ last_op = "next"
    /\ app.sessions = <<>>
    /\ app.state = None
    /\ app.should_quit

-----------------------------------------------------------------------------
(* Further claims about filter_active_sessions *)

\* The input positions of the records of a pane that carry its greatest
\* `updated`.
FreshestAt(pane) ==
    { i \in InputAt(pane) :
        \A j \in InputAt(pane) : all_sessions[j].updated <= all_sessions[i].updated }

\* C20: when several records of one live pane share the greatest `updated`,
\* the output's entry for the pane is the first of them in input order.
C20_FirstSeenWinsTies ==
    filtered.ok =>
        \A k \in 1..Len(Out) :
            \E i \in FreshestAt(Out[k].pane_id) :
                /\ Out[k] = all_sessions[i]
                /\ \A j \in FreshestAt(Out[k].pane_id) : i <= j

\* Three records of pane 7, the last two equally fresh: the second is kept.
C20_Witness ==
    /\ filtered.ok
    /\ Len(all_sessions) = 3
    /\ InputAt("7") = {1, 2, 3}
    /\ FreshestAt("7") = {2, 3}
    /\ \E k \in 1..Len(Out) : Out[k] = all_sessions[2]

\* The live panes that some input record names.
LiveReferenced == { all_sessions[i].pane_id : i \in 1..Len(all_sessions) } \cap LivePanes

\* C21: aggregation loses no live pane: each live pane named by an input
\* record has exactly one entry in the output, and the output is as long as
\* there are such panes.
C21_NoLivePaneLost ==
    filtered.ok =>
        /\ \A p \in LiveReferenced :
              Cardinality({ k \in 1..Len(Out) : Out[k].pane_id = p }) = 1
        /\ Len(Out) = Cardinality(LiveReferenced)

\* Three records over the live panes 7 and 9, two of them on pane 7.
C21_Witness ==
    /\ filtered.ok
    /\ Len(all_sessions) = 3
    /\ LiveReferenced = {"7", "9"}
    /\ Cardinality(InputAt("7")) = 2
    /\ Len(Out) = 2

-----------------------------------------------------------------------------
(* Claims about main after the dashboard *)

\* The positions of the aggregated list that hold the confirmed session_id.
ConfirmedAt ==
    { i \in 1..Len(main_sessions) : main_sessions[i].session_id \in tui_result.val }

\* C22: in dashboard mode main enters the confirmation only with a confirmed
\* session_id and a list the aggregation yields in the environment of that
\* moment; a pane activation is requested only there, only when that list
\* holds a session with the confirmed id, and for that session's pane_id;
\* and when the list holds no such session, main ends with no pane activated
\* and no error.
C22_JumpAfterDashboard ==
    [][ DashboardMode =>
          /\ (main_pc = "tui" /\ main_pc' = "confirm") =>
                /\ IsSome(tui_result.val)
                /\ Ok(main_sessions') \in Aggregates
          /\ activated' # activated =>
                /\ main_pc = "confirm"
                /\ \E i \in ConfirmedAt :
                      /\ \A j \in ConfirmedAt : i <= j
                      /\ activated' = Some(main_sessions[i].pane_id)
          /\ (main_pc = "confirm" /\ main_pc' = "exit" /\ ConfirmedAt = {}) =>
                /\ activated' = None
                /\ exit_result' = Ok(Unit)
      ]_vars

\* s1 was confirmed on the dashboard; meanwhile s2 started on s1's pane, so
\* the fresh list holds s2 only: main ends with no activation and no error.
C22_Witness ==
    /\ Exited
    /\ DashboardMode
    /\ tui_result = Ok(Some("s1"))
    /\ Len(tui_arg) = 1
    /\ tui_arg[1].session_id = "s1"
    /\ Len(main_sessions) = 1
    /\ main_sessions[1].session_id = "s2"
    /\ main_sessions[1].pane_id = tui_arg[1].pane_id
    /\ activated = None
    /\ exit_result = Ok(Unit)

-----------------------------------------------------------------------------
(* Claims about the termination of run_tui *)

InLoop == pc \in {"draw", "poll", "refresh"}
Returned == pc \in {"done", "failed"}
EndedByKey ==
    \/ code' = Some("q")
    \/ code' = Some("Enter") /\ IsSome(selected_session_id')

\* C24 as stated: every iteration of the loop completes, with a quit key
\* delivered at some point the loop terminates, and the loop is left only
\* by the quit key or by the confirm key with a session selected.
C24_LoopEndsOnlyByKey ==
    /\ [][ (InLoop /\ ~InLoop') => EndedByKey ]_vars
    /\ (pc = "draw") ~> (pc \in {"refresh", "cleanup"})
    /\ <>Returned

\* C24 amended: every iteration of the loop either completes or ends the
\* loop with a terminal I/O error; with a quit key delivered at some point
\* run_tui returns; and the loop is left only by the quit key, by the
\* confirm key with a session selected, or by a terminal I/O error.
C24_LoopEndsByKeyOrIoError ==
    /\ [][ (InLoop /\ ~InLoop') => (EndedByKey \/ pc' = "failed") ]_vars
    /\ (pc = "draw") ~> (pc \in {"refresh", "cleanup", "failed"})
    /\ <>Returned

\* The quit key ended a loop over two sessions and run_tui returned None.
C24_Witness ==
    /\ pc = "done"
    /\ code = Some("q")
    /\ Len(app.sessions) = 2
    /\ app.should_quit
    /\ tui_result = Ok(None)

-----------------------------------------------------------------------------
(* Claims about cwd_to_project_path *)

\* C23: the index location derived from a cwd is different for different
\* cwds: no two sessions of a call with different cwds read the same
\* sessions-index.json.
C23_DistinctCwdsDistinctLocations ==
    enriched # NotRun =>
        \A i, j \in 1..Len(to_enrich) :
            to_enrich[i].cwd # to_enrich[j].cwd =>
                cwd_to_project_path(to_enrich[i].cwd) # cwd_to_project_path(to_enrich[j].cwd)

====
